---- MODULE Spec2Model ----
(***************************************************************************)
(* Model of the vbsocial post tracker: the SQLite store (tracker/db.py),   *)
(* the folder manager (tracker/manager.py) and the scheduler               *)
(* (tracker/scheduler.py).                                                 *)
(*                                                                         *)
(* Representation                                                          *)
(*   - a text value is a sequence of tokens; a folder name is the sequence *)
(*     of its "_"-separated parts, an ISO timestamp is the sequence of its *)
(*     fixed-width fields (whole part, then the fraction when non-zero);   *)
(*   - a nullable column holds NULL (<<>>) or Some(v) (<<v>>);             *)
(*   - the posts table is a function from the ids of its rows to rows;     *)
(*   - the file system is the set of folder names under the base path.     *)
(***************************************************************************)
EXTENDS Integers, Sequences, FiniteSets, TLC

VARIABLES db, fs, now, sch, last, run, inbox

vars == <<db, fs, now, sch, last, run, inbox>>

----------------------------------------------------------------------------
(* Bounds and input sets                                                   *)

MaxTime == 4

FracPerUnit == 2

Ids == {"a", "b"}

Times == 0..MaxTime

NULL == <<>>

Some(v) == <<v>>

----------------------------------------------------------------------------
(* tracker/db.py: PostStatus                                               *)

DRAFT == "draft"

READY == "ready"

POSTING == "posting"

POSTED == "posted"

FAILED == "failed"

PostStatus == {DRAFT, READY, POSTING, POSTED, FAILED}

----------------------------------------------------------------------------
(* datetime: isoformat, strftime and the string order SQLite compares by   *)

\* datetime.isoformat(): the fraction is printed only when it is non-zero
isoformat(t) ==
    IF t % FracPerUnit = 0
    THEN <<t \div FracPerUnit>>
    ELSE <<t \div FracPerUnit, t % FracPerUnit>>

\* the instant an ISO string denotes (datetime.fromisoformat)
fromisoformat(s) ==
    IF Len(s) = 1 THEN s[1] * FracPerUnit ELSE s[1] * FracPerUnit + s[2]

\* date.strftime("%Y_%m_%d"): three "_"-separated parts
strftime(t) == <<"2025", "06", ToString(t \div FracPerUnit)>>

\* SQLite's TEXT comparison a <= b: first differing field decides, a
\* proper prefix sorts first
TextLeq(a, b) ==
    \E k \in 0..Len(a) :
        /\ k <= Len(b)
        /\ \A i \in 1..k : a[i] = b[i]
        /\ \/ k = Len(a)
           \/ /\ k < Len(b)
              /\ a[k + 1] < b[k + 1]

----------------------------------------------------------------------------
(* tracker/db.py: PostDB.  Every operator takes the table and returns the  *)
(* table after the statement; RowCount is cursor.rowcount > 0.             *)

NewRow(t, folder_path, source_type) ==
    [ created_at    |-> isoformat(t),
      updated_at    |-> isoformat(t),
      status        |-> DRAFT,
      scheduled_for |-> NULL,
      folder_path   |-> folder_path,
      source_type   |-> source_type,
      post_ids      |-> NULL,
      last_error    |-> NULL,
      posted_at     |-> NULL ]

\* UPDATE posts SET ... WHERE id = post_id AND <where>: row is the matched
\* row with the SET applied; where and row are read only for a row with
\* this id
Update(d, post_id, where, row) ==
    [i \in DOMAIN d |-> IF i = post_id /\ where THEN row ELSE d[i]]

\* cursor.rowcount > 0 of that UPDATE
RowCount(d, post_id, where) ==
    post_id \in DOMAIN d /\ where

AnyRow(r) == TRUE

\* INSERT INTO posts ...; the PRIMARY KEY rejects an id already present
\* (sqlite3.IntegrityError) and the table is as it was
create_post(d, post_id, t, folder_path, source_type) ==
    IF post_id \in DOMAIN d
    THEN d
    ELSE [i \in DOMAIN d \cup {post_id} |->
             IF i = post_id THEN NewRow(t, folder_path, source_type) ELSE d[i]]

update_status(d, post_id, status, t) ==
    LET upd(r) == [r EXCEPT !.status = status, !.updated_at = isoformat(t)]
    IN  Update(d, post_id, AnyRow(d[post_id]), upd(d[post_id]))

\* a faulty update_folder_path that leaves the stored path as it was
update_folder_path_Skipped(d, post_id, folder_path, t) == d

update_folder_path(d, post_id, folder_path, t) ==
    LET upd(r) == [r EXCEPT !.folder_path = folder_path,
                            !.updated_at = isoformat(t)]
    IN  Update(d, post_id, AnyRow(d[post_id]), upd(d[post_id]))

IsReady(r) == r.status = READY

\* a faulty schedule_post whose UPDATE lacks "AND status = 'ready'"
schedule_post_AnyStatus(d, post_id, scheduled_for, t) ==
    LET upd(r) == [r EXCEPT !.scheduled_for = Some(isoformat(scheduled_for)),
                            !.updated_at = isoformat(t)]
    IN  Update(d, post_id, AnyRow(d[post_id]), upd(d[post_id]))

schedule_post(d, post_id, scheduled_for, t) ==
    LET upd(r) == [r EXCEPT !.scheduled_for = Some(isoformat(scheduled_for)),
                            !.updated_at = isoformat(t)]
    IN  Update(d, post_id, IsReady(d[post_id]), upd(d[post_id]))

unschedule_post(d, post_id, t) ==
    LET upd(r) == [r EXCEPT !.scheduled_for = NULL,
                            !.updated_at = isoformat(t)]
    IN  Update(d, post_id, AnyRow(d[post_id]), upd(d[post_id]))

\* a mark_posting with a compare-and-swap the source does not have:
\* "AND status = 'ready'"
mark_posting_OnlyReady(d, post_id, t) ==
    LET upd(r) == [r EXCEPT !.status = POSTING,
                            !.updated_at = isoformat(t)]
    IN  Update(d, post_id, IsReady(d[post_id]), upd(d[post_id]))

\* a faulty mark_posting that also sets scheduled_for to NULL
mark_posting_ClearsSchedule(d, post_id, t) ==
    LET upd(r) == [r EXCEPT !.status = POSTING,
                            !.scheduled_for = NULL,
                            !.updated_at = isoformat(t)]
    IN  Update(d, post_id, AnyRow(d[post_id]), upd(d[post_id]))

mark_posting(d, post_id, t) == update_status(d, post_id, POSTING, t)

\* json.dumps of the platform -> id dict (a sequence of <<key, value>> in
\* insertion order): the text lists key, value, key, value, ...
json_dumps(pairs) ==
    [i \in 1..(2 * Len(pairs)) |-> pairs[(i + 1) \div 2][2 - (i % 2)]]

\* json.loads of such a text
json_loads(text) ==
    [i \in 1..(Len(text) \div 2) |-> <<text[2 * i - 1], text[2 * i]>>]

\* a faulty mark_posted whose UPDATE lacks "last_error = NULL"
mark_posted_KeepsError(d, post_id, platform_ids, t) ==
    LET upd(r) == [r EXCEPT !.status = POSTED,
                            !.post_ids = Some(json_dumps(platform_ids)),
                            !.posted_at = Some(isoformat(t)),
                            !.updated_at = isoformat(t)]
    IN  Update(d, post_id, AnyRow(d[post_id]), upd(d[post_id]))

mark_posted(d, post_id, platform_ids, t) ==
    LET upd(r) == [r EXCEPT !.status = POSTED,
                            !.post_ids = Some(json_dumps(platform_ids)),
                            !.posted_at = Some(isoformat(t)),
                            !.last_error = NULL,
                            !.updated_at = isoformat(t)]
    IN  Update(d, post_id, AnyRow(d[post_id]), upd(d[post_id]))

\* a faulty mark_failed whose UPDATE lacks "last_error = ?"
mark_failed_NoError(d, post_id, error, t) ==
    LET upd(r) == [r EXCEPT !.status = FAILED,
                            !.updated_at = isoformat(t)]
    IN  Update(d, post_id, AnyRow(d[post_id]), upd(d[post_id]))

mark_failed(d, post_id, error, t) ==
    LET upd(r) == [r EXCEPT !.status = FAILED,
                            !.last_error = Some(error),
                            !.updated_at = isoformat(t)]
    IN  Update(d, post_id, AnyRow(d[post_id]), upd(d[post_id]))

IsFailed(r) == r.status = FAILED

\* a faulty retry_failed that also sets scheduled_for to the time of the retry
retry_failed_Reschedules(d, post_id, t) ==
    LET upd(r) == [r EXCEPT !.status = READY,
                            !.last_error = NULL,
                            !.scheduled_for = Some(isoformat(t)),
                            !.updated_at = isoformat(t)]
    IN  Update(d, post_id, IsFailed(d[post_id]), upd(d[post_id]))

\* a faulty retry_failed that also sets scheduled_for to NULL
retry_failed_ClearsSchedule(d, post_id, t) ==
    LET upd(r) == [r EXCEPT !.status = READY,
                            !.last_error = NULL,
                            !.scheduled_for = NULL,
                            !.updated_at = isoformat(t)]
    IN  Update(d, post_id, IsFailed(d[post_id]), upd(d[post_id]))

\* a faulty retry_failed whose UPDATE lacks "AND status = 'failed'"
retry_failed_AnyStatus(d, post_id, t) ==
    LET upd(r) == [r EXCEPT !.status = READY,
                            !.last_error = NULL,
                            !.updated_at = isoformat(t)]
    IN  Update(d, post_id, AnyRow(d[post_id]), upd(d[post_id]))

retry_failed(d, post_id, t) ==
    LET upd(r) == [r EXCEPT !.status = READY,
                            !.last_error = NULL,
                            !.updated_at = isoformat(t)]
    IN  Update(d, post_id, IsFailed(d[post_id]), upd(d[post_id]))

\* a faulty WHERE clause that lacks "status = 'ready'"
IsDue_AnyStatus(r, before_str) ==
    /\ r.scheduled_for # NULL
    /\ TextLeq(r.scheduled_for[1], before_str)

\* WHERE status = 'ready' AND scheduled_for IS NOT NULL AND scheduled_for <= ?
IsDue(r, before_str) ==
    /\ r.status = READY
    /\ r.scheduled_for # NULL
    /\ TextLeq(r.scheduled_for[1], before_str)

\* a faulty query without "ORDER BY scheduled_for ASC": the rows in any order
OrderBySchedule_Unordered(d, sel) ==
    { q \in [1..Cardinality(sel) -> sel] :
        \A i, j \in DOMAIN q : i # j => q[i] # q[j] }

\* ORDER BY scheduled_for ASC: every listing of the selected rows in which
\* no row precedes one with a strictly smaller key (ties in any order)
OrderBySchedule(d, sel) ==
    { q \in [1..Cardinality(sel) -> sel] :
        /\ \A i, j \in DOMAIN q : i # j => q[i] # q[j]
        /\ \A i, j \in DOMAIN q :
              i < j => TextLeq(d[q[i]].scheduled_for[1], d[q[j]].scheduled_for[1]) }

\* the possible results of the query, as sequences of row ids
get_scheduled_posts(d, before) ==
    OrderBySchedule(d, {i \in DOMAIN d : IsDue(d[i], isoformat(before))})

get_due_posts(d, t) == get_scheduled_posts(d, t)

----------------------------------------------------------------------------
(* tracker/manager.py: PostManager                                         *)

\* f"{post_id}_{date_str}_{status.value}"
_make_folder_name(post_id, t, status) == <<post_id>> \o strftime(t) \o <<status>>

None == <<>>

\* folder_name.split("_") is the name itself; None below five parts
_parse_folder_name(folder_name) ==
    IF Len(folder_name) >= 5
    THEN << folder_name[1],
            SubSeq(folder_name, 2, 4),
            SubSeq(folder_name, 5, Len(folder_name)) >>
    ELSE None

\* Path.rename(old, new) on the set of folders; oserror: the system call
\* fails (target not empty, permissions, ...) and rename raises OSError
Rename(f, old_path, new_path, oserror) ==
    IF oserror THEN [ok |-> FALSE, fs |-> f]
    ELSE [ok |-> TRUE, fs |-> (f \ {old_path}) \cup {new_path}]

\* a faulty PostManager.update_status that writes the new status to the
\* store before it looks at the folder
manager_update_status_StoreFirst(d, f, post_id, new_status, t, oserror) ==
    IF post_id \notin DOMAIN d
    THEN [db |-> d, fs |-> f, ret |-> "none"]
    ELSE LET old_path == d[post_id].folder_path
             parsed   == _parse_folder_name(old_path)
             stored   == update_status(d, post_id, new_status, t)
         IN  IF old_path \notin f
             THEN [db |-> stored, fs |-> f, ret |-> "none"]
             ELSE IF parsed = None
             THEN [db |-> stored, fs |-> f, ret |-> "none"]
             ELSE LET new_path == <<post_id>> \o parsed[2] \o <<new_status>>
                      mv       == Rename(f, old_path, new_path, oserror)
                  IN  IF ~mv.ok
                      THEN [db |-> stored, fs |-> f, ret |-> "raise"]
                      ELSE [db  |-> update_folder_path(stored, post_id, new_path, t),
                            fs  |-> mv.fs,
                            ret |-> "path"]

\* PostManager.update_status: the store and folders after the call and what
\* it returned ("none", "path") or that it raised ("raise")
manager_update_status(d, f, post_id, new_status, t, oserror) ==
    IF post_id \notin DOMAIN d
    THEN [db |-> d, fs |-> f, ret |-> "none"]
    ELSE LET old_path == d[post_id].folder_path
             parsed   == _parse_folder_name(old_path)
         IN  IF old_path \notin f
             THEN [db |-> d, fs |-> f, ret |-> "none"]
             ELSE IF parsed = None
             THEN [db |-> d, fs |-> f, ret |-> "none"]
             ELSE LET new_path == <<post_id>> \o parsed[2] \o <<new_status>>
                      mv       == Rename(f, old_path, new_path, oserror)
                  IN  IF ~mv.ok
                      THEN [db |-> d, fs |-> f, ret |-> "raise"]
                      ELSE [db  |-> update_folder_path(
                                        update_status(d, post_id, new_status, t),
                                        post_id, new_path, t),
                            fs  |-> mv.fs,
                            ret |-> "path"]

----------------------------------------------------------------------------
(* tracker/scheduler.py: Scheduler.post_single                             *)

\* the (name, post_fn) list, in its order
platforms == <<"facebook", "instagram", "linkedin", "x">>

\* what a destination can answer: it raises, it returns nothing (None or an
\* empty id), or it returns its external identifier
ExtId == [facebook |-> "fb-1", instagram |-> "ig-1", linkedin |-> "li-1", x |-> "tw-1"]

Answers(p) == {"raise", "none", ExtId[p]}

\* the post.yaml of a folder: it fails to load (or the images do), or it
\* gives the set of platforms with a non-empty caption
CaptionSets == { {}, {"facebook", "instagram"} }

Configs ==
    {[ok |-> FALSE, captions |-> {}]} \cup
    {[ok |-> TRUE, captions |-> c] : c \in CaptionSets}

\* a faulty for-loop that leaves at the first destination that raises
RECURSIVE post_loop_StopsAtError(_, _, _, _, _, _)
post_loop_StopsAtError(i, captions, answer, post_ids, errors, calls) ==
    IF i > Len(platforms) \/ errors # <<>>
    THEN [post_ids |-> post_ids, errors |-> errors, calls |-> calls]
    ELSE LET platform == platforms[i]
         IN  IF platform \notin captions
             THEN post_loop_StopsAtError(i + 1, captions, answer, post_ids, errors, calls)
             ELSE IF answer[platform] = "raise"
             THEN post_loop_StopsAtError(i + 1, captions, answer, post_ids,
                            Append(errors, platform), Append(calls, platform))
             ELSE IF answer[platform] = "none"
             THEN post_loop_StopsAtError(i + 1, captions, answer, post_ids, errors,
                            Append(calls, platform))
             ELSE post_loop_StopsAtError(i + 1, captions, answer,
                            Append(post_ids, <<platform, answer[platform]>>),
                            errors, Append(calls, platform))

\* the for-loop over platforms from position i on; calls lists the
\* destinations whose post_fn has been called, in the order of the calls
RECURSIVE post_loop(_, _, _, _, _, _)
post_loop(i, captions, answer, post_ids, errors, calls) ==
    IF i > Len(platforms)
    THEN [post_ids |-> post_ids, errors |-> errors, calls |-> calls]
    ELSE LET platform == platforms[i]
         IN  IF platform \notin captions
             THEN post_loop(i + 1, captions, answer, post_ids, errors, calls)
             ELSE IF answer[platform] = "raise"
             THEN post_loop(i + 1, captions, answer, post_ids,
                            Append(errors, platform), Append(calls, platform))
             ELSE IF answer[platform] = "none"
             THEN post_loop(i + 1, captions, answer, post_ids, errors,
                            Append(calls, platform))
             ELSE post_loop(i + 1, captions, answer,
                            Append(post_ids, <<platform, answer[platform]>>),
                            errors, Append(calls, platform))

\* a faulty ending of post_single: "if errors" alone
post_result_AnyErrorFails(post_ids, errors) ==
    IF errors # <<>>
    THEN [success |-> FALSE, error |-> errors, platform_ids |-> post_ids]
    ELSE [success |-> TRUE, error |-> <<>>, platform_ids |-> post_ids]

\* the final "if errors and not post_ids" of post_single
post_result(post_ids, errors) ==
    IF errors # <<>> /\ post_ids = <<>>
    THEN [success |-> FALSE, error |-> errors, platform_ids |-> post_ids]
    ELSE [success |-> TRUE, error |-> <<>>, platform_ids |-> post_ids]

\* a faulty post_single without the "if not folder_path.exists()" return
post_single_NoFolderCheck(f, post, config, answer) ==
    IF ~config.ok
    THEN [success |-> FALSE, error |-> <<"Failed to load post config">>,
          platform_ids |-> <<>>, calls |-> <<>>]
    ELSE LET r == post_loop(1, config.captions, answer, <<>>, <<>>, <<>>)
             o == post_result(r.post_ids, r.errors)
         IN  [success |-> o.success, error |-> o.error,
              platform_ids |-> o.platform_ids, calls |-> r.calls]

\* post_single(post) with the folders f, the folder's config (it loads or
\* not, its captions) and the destinations' answers: (success, error,
\* platform_ids), and the calls of destinations it made
post_single(f, post, config, answer) ==
    IF post.folder_path \notin f
    THEN [success |-> FALSE, error |-> <<"Folder not found">>,
          platform_ids |-> <<>>, calls |-> <<>>]
    ELSE IF ~config.ok
    THEN [success |-> FALSE, error |-> <<"Failed to load post config">>,
          platform_ids |-> <<>>, calls |-> <<>>]
    ELSE LET r == post_loop(1, config.captions, answer, <<>>, <<>>, <<>>)
             o == post_result(r.post_ids, r.errors)
         IN  [success |-> o.success, error |-> o.error,
              platform_ids |-> o.platform_ids, calls |-> r.calls]

----------------------------------------------------------------------------
(* State                                                                   *)
(*   db    the posts table                                                 *)
(*   fs    the folders under the base path                                 *)
(*   now   the clock datetime.now() reads; it advances with every operator *)
(*         command (two commands never run at the same instant) and when   *)
(*         time passes with no command                                     *)
(*   sch   per scheduler process: where it is in check_and_post (pc), the  *)
(*         rows the due query returned and are still to be processed       *)
(*         (queue, the head is the one in hand), the inputs and the result *)
(*         of the post_single in hand (att, res)                           *)
(*   last  the operation that made the last step, its arguments, what it   *)
(*         returned and the row it found                                   *)
(*   run   per scheduler process: where it is in run_daemon (pc), the flag *)
(*         self.running, the sleep increments of the current for-loop      *)
(*         (slept), the cycles begun (cycles) and where the process was    *)
(*         when the stop signal arrived (signal)                           *)
(*   inbox the staging folder (files), and where a process_folder /        *)
(*         process_inbox_* run is in its for-loop: the sorted listing still *)
(*         to be visited (queue, the head is the file in hand), the list it *)
(*         returns (results), the files its creations returned for          *)
(*         (created), the listing it began with (start) and how it ended    *)
(*         (outcome)                                                        *)

Insts == {"daemon"}

NoAtt == [config |-> [ok |-> FALSE, captions |-> {}], answer |-> <<>>]

NoRes == [success |-> FALSE, error |-> <<>>, platform_ids |-> <<>>, calls |-> <<>>]

Idle == [pc |-> "idle", queue |-> <<>>, att |-> NoAtt, res |-> NoRes]

\* a scheduler that is not in run_daemon: its cycles are those of run_once
Off == [pc |-> "off", running |-> FALSE, slept |-> 0, cycles |-> 0, signal |-> "none"]

\* no staged file, no run
NoInbox ==
    [files |-> {}, pc |-> "idle", source_type |-> "image", delete_after |-> FALSE,
     start |-> {}, queue |-> <<>>, results |-> <<>>, created |-> <<>>,
     outcome |-> "none"]

\* the row of a job, when the table has one
Row(d, id) == IF id \in DOMAIN d THEN Some(d[id]) ELSE NULL

\* an operation on job id with argument arg that returned ret; before is
\* the job's row as the operation found it
Did(op, id, arg, ret) ==
    [op |-> op, id |-> id, arg |-> arg, ret |-> ret, before |-> Row(db, id)]

Bool(b) == IF b THEN "true" ELSE "false"

\* folder names that no _make_folder_name produced
OddPaths == { <<"legacy">> }

Init ==
    /\ db = <<>>
    /\ fs = {}
    /\ now = 0
    /\ sch = [s \in Insts |-> Idle]
    /\ last = Did("init", "", "", "")
    /\ run = [s \in Insts |-> Off]
    /\ inbox = NoInbox

----------------------------------------------------------------------------
(* Operator-side operations (tracker/cli.py commands and the PostDB /      *)
(* PostManager calls behind them)                                          *)

\* the clock moves on, up to the horizon
Elapse ==
    /\ now < MaxTime
    /\ now' = now + 1

Tick ==
    /\ Elapse
    /\ last' = Did("tick", "", "", "")
    /\ UNCHANGED <<db, fs, sch, run, inbox>>

\* PostManager.create_post_from_image with generate_short_uuid() = post_id
\* (uuid4().hex[:6], which can be the id of a row): without the image it
\* raises at once; else the folder is made (mkdir(exist_ok=True)) and the
\* image copied before the INSERT, which raises for an id already present
CreateFromImage(post_id, exists) ==
    LET folder_path == _make_folder_name(post_id, now, DRAFT)
    IN  /\ IF ~exists
           THEN /\ UNCHANGED <<db, fs, inbox>>
                /\ last' = Did("create", post_id, "", "raise")
           ELSE /\ fs' = fs \cup {folder_path}
                /\ db' = create_post(db, post_id, now, folder_path, "image")
                /\ last' = Did("create", post_id, "",
                               IF post_id \in DOMAIN db THEN "integrity" ELSE "path")
        /\ Elapse
        /\ UNCHANGED <<sch, run, inbox>>

\* PostDB.create_post called with a folder path of the caller's own
RegisterPost(post_id, folder_path) ==
    /\ post_id \notin DOMAIN db
    /\ db' = create_post(db, post_id, now, folder_path, "")
    /\ last' = Did("register", post_id, "", "path")
    /\ Elapse
    /\ UNCHANGED <<fs, sch, run, inbox>>

\* a folder is made or removed under the base path outside the tracker
FolderMade(name) ==
    /\ name \notin fs
    /\ fs' = fs \cup {name}
    /\ last' = Did("mkdir", "", "", "")
    /\ Elapse
    /\ UNCHANGED <<db, sch, run, inbox>>

FolderRemoved(name) ==
    /\ name \in fs
    /\ fs' = fs \ {name}
    /\ last' = Did("rmdir", "", "", "")
    /\ Elapse
    /\ UNCHANGED <<db, sch, run, inbox>>

\* status_cmd: PostManager.update_status(post_id, new_status)
TransitionTargets == {DRAFT, READY, POSTED}

Transition(post_id, new_status, oserror) ==
    LET r == manager_update_status(db, fs, post_id, new_status, now, oserror)
    IN  /\ db' = r.db
        /\ fs' = r.fs
        /\ last' = Did("transition", post_id, new_status, r.ret)
        /\ Elapse
        /\ UNCHANGED <<sch, run, inbox>>

\* PostDB.schedule_post(post_id, when)
Schedule(post_id, when) ==
    /\ db' = schedule_post(db, post_id, when, now)
    /\ last' = Did("schedule", post_id, when, Bool(RowCount(db, post_id, IsReady(db[post_id]))))
    /\ Elapse
    /\ UNCHANGED <<fs, sch, run, inbox>>

\* PostDB.unschedule_post(post_id)
Unschedule(post_id) ==
    /\ db' = unschedule_post(db, post_id, now)
    /\ last' = Did("unschedule", post_id, "", Bool(RowCount(db, post_id, AnyRow(db[post_id]))))
    /\ Elapse
    /\ UNCHANGED <<fs, sch, run, inbox>>

\* PostDB.retry_failed(post_id)
Retry(post_id) ==
    /\ db' = retry_failed(db, post_id, now)
    /\ last' = Did("retry", post_id, "", Bool(RowCount(db, post_id, IsFailed(db[post_id]))))
    /\ Elapse
    /\ UNCHANGED <<fs, sch, run, inbox>>

----------------------------------------------------------------------------
(* Scheduler.check_and_post, one database statement or one post_single per *)
(* step, so that the operator's commands (another process on the same      *)
(* store) interleave with it                                               *)

Snapshot(d, id) == [id |-> id, folder_path |-> d[id].folder_path]

\* after the job in hand: the next row of the for-loop, or the end of the cycle
NextJob(c) ==
    IF Len(c.queue) > 1
    THEN [pc |-> "mark", queue |-> Tail(c.queue), att |-> NoAtt, res |-> NoRes]
    ELSE Idle

\* due_posts = self.manager.db.get_due_posts()
CheckDue(s) ==
    /\ sch[s].pc = "idle"
    /\ run[s].pc \in {"off", "check"}
    /\ run' = [run EXCEPT ![s].pc = IF @ = "check" THEN "cycle" ELSE @,
                          ![s].cycles = IF run[s].pc = "check" THEN @ + 1 ELSE @]
    /\ \E q \in get_due_posts(db, now) :
          /\ sch' = [sch EXCEPT ![s] =
                        IF q = <<>> THEN Idle
                        ELSE [pc |-> "mark",
                              queue |-> [i \in DOMAIN q |-> Snapshot(db, q[i])],
                              att |-> NoAtt, res |-> NoRes]]
          /\ last' = Did("due", "", now, q)
    /\ UNCHANGED <<db, fs, now, inbox>>

\* self.manager.db.mark_posting(post_id)
MarkPosting(s) ==
    /\ sch[s].pc = "mark"
    /\ LET post == Head(sch[s].queue)
       IN  /\ db' = mark_posting(db, post.id, now)
           /\ last' = Did("mark_posting", post.id, "", s)
    /\ sch' = [sch EXCEPT ![s].pc = "post"]
    /\ UNCHANGED <<fs, now, run, inbox>>

\* success, error, platform_ids = self.post_single(post)
PostSingle(s) ==
    /\ sch[s].pc = "post"
    /\ LET post == Head(sch[s].queue)
       IN  \E config \in Configs :
           \E answer \in [config.captions -> UNION {Answers(p) : p \in config.captions}] :
              /\ \A p \in config.captions : answer[p] \in Answers(p)
              /\ (post.folder_path \notin fs => config = NoAtt.config)
              /\ sch' = [sch EXCEPT ![s].pc = "outcome",
                                    ![s].att = [config |-> config, answer |-> answer],
                                    ![s].res = post_single(fs, post, config, answer)]
              /\ last' = Did("post_single", post.id, "", s)
    /\ UNCHANGED <<db, fs, now, run, inbox>>

\* post_single for a post.yaml whose captions entry is not a mapping (the
\* YAML "captions:" with nothing under it loads as None): config.get returns
\* it inside the try, and captions.get(platform, "") raises AttributeError
\* outside it; the exception leaves post_single and the for-loop of
\* check_and_post
PostSingleRaises(s) ==
    /\ sch[s].pc = "post"
    /\ Head(sch[s].queue).folder_path \in fs
    /\ sch' = [sch EXCEPT ![s] = Idle]
    /\ last' = Did("post_single_raised", Head(sch[s].queue).id, "", s)
    /\ UNCHANGED <<db, fs, now, run, inbox>>

\* if success: mark_posted(post_id, platform_ids) else: mark_failed(post_id, error)
RecordOutcome(s) ==
    /\ sch[s].pc = "outcome"
    /\ LET post == Head(sch[s].queue)
           res  == sch[s].res
       IN  IF res.success
           THEN /\ db' = mark_posted(db, post.id, res.platform_ids, now)
                /\ sch' = [sch EXCEPT ![s].pc = "sync"]
                /\ last' = Did("mark_posted", post.id, res.platform_ids, s)
           ELSE /\ db' = mark_failed(db, post.id, res.error, now)
                /\ sch' = [sch EXCEPT ![s] = NextJob(sch[s])]
                /\ last' = Did("mark_failed", post.id, res.error, s)
    /\ UNCHANGED <<fs, now, run, inbox>>

\* self.manager.update_status(post_id, PostStatus.POSTED); an OSError of the
\* rename leaves the for-loop
SyncFolder(s, oserror) ==
    /\ sch[s].pc = "sync"
    /\ LET post == Head(sch[s].queue)
           r    == manager_update_status(db, fs, post.id, POSTED, now, oserror)
       IN  /\ db' = r.db
           /\ fs' = r.fs
           /\ sch' = [sch EXCEPT ![s] = IF r.ret = "raise" THEN Idle
                                        ELSE NextJob(sch[s])]
           /\ last' = Did("sync", post.id, POSTED, r.ret)
    /\ UNCHANGED <<now, run, inbox>>

----------------------------------------------------------------------------

Next ==
    \/ Tick
    \/ \E post_id \in Ids, exists \in BOOLEAN : CreateFromImage(post_id, exists)
    \/ \E post_id \in Ids, folder_path \in OddPaths : RegisterPost(post_id, folder_path)
    \/ \E name \in OddPaths : FolderMade(name)
    \/ \E name \in fs : FolderRemoved(name)
    \/ \E post_id \in Ids, new_status \in TransitionTargets, oserror \in BOOLEAN :
          Transition(post_id, new_status, oserror)
    \/ \E post_id \in Ids, when \in Times : Schedule(post_id, when)
    \/ \E post_id \in Ids : Unschedule(post_id)
    \/ \E post_id \in Ids : Retry(post_id)
    \/ \E s \in Insts : CheckDue(s)
    \/ \E s \in Insts : MarkPosting(s)
    \/ \E s \in Insts : PostSingle(s)
    \/ \E s \in Insts : PostSingleRaises(s)
    \/ \E s \in Insts : RecordOutcome(s)
    \/ \E s \in Insts, oserror \in BOOLEAN : SyncFolder(s, oserror)

Spec == Init /\ [][Next]_vars

----------------------------------------------------------------------------
(* The due query on its own: get_scheduled_posts(before), the query behind *)
(* scheduled_cmd and get_due_posts, applied to every store of three jobs   *)
(* with any status and any schedule                                        *)

QueryIds == {"a", "b", "c"}

\* the folder of a job in the given status: mark_posting and mark_failed
\* leave the name the job had when it was ready
FolderStatus(status) == IF status \in {POSTING, FAILED} THEN READY ELSE status

StoredRow(id, status, scheduled_for) ==
    [NewRow(0, _make_folder_name(id, 0, FolderStatus(status)), "image")
        EXCEPT !.status = status,
               !.scheduled_for = scheduled_for,
               !.last_error = IF status = FAILED THEN Some(<<"facebook">>) ELSE NULL,
               !.posted_at = IF status = POSTED THEN Some(isoformat(0)) ELSE NULL,
               !.post_ids = IF status = POSTED THEN Some(<<>>) ELSE NULL]

Schedules == {NULL} \cup {Some(isoformat(t)) : t \in Times}

InitQuery ==
    /\ \E st \in [QueryIds -> PostStatus], sf \in [QueryIds -> Schedules] :
          db = [id \in QueryIds |-> StoredRow(id, st[id], sf[id])]
    /\ fs = {db[id].folder_path : id \in QueryIds}
    /\ now = MaxTime
    /\ sch = [s \in Insts |-> Idle]
    /\ last = [op |-> "init", id |-> "", arg |-> "", ret |-> "", before |-> NULL]
    /\ run = [s \in Insts |-> Off]
    /\ inbox = NoInbox

\* db.get_scheduled_posts(before)
ScheduledPosts(before) ==
    /\ \E q \in get_scheduled_posts(db, before) :
          last' = Did("scheduled", "", before, q)
    /\ UNCHANGED <<db, fs, now, sch, run, inbox>>

NextQuery == \E before \in Times : ScheduledPosts(before)

SpecQuery == InitQuery /\ [][NextQuery]_vars

----------------------------------------------------------------------------
(* Scheduler.run_daemon over a store of two jobs, draft or ready, with     *)
(* any schedule: the while-loop, check_and_post step by step as above, the *)
(* for-loop of one-second sleeps, and the signal handler                   *)

\* self.check_interval, in sleep increments
CheckInterval == 2

InitDaemon ==
    /\ \E st \in [Ids -> {DRAFT, READY}], sf \in [Ids -> Schedules] :
          db = [id \in Ids |-> StoredRow(id, st[id], sf[id])]
    /\ fs = {db[id].folder_path : id \in Ids}
    /\ now = 0
    /\ sch = [s \in Insts |-> Idle]
    /\ last = [op |-> "init", id |-> "", arg |-> "", ret |-> "", before |-> NULL]
    /\ run = [s \in Insts |-> [Off EXCEPT !.pc = "init"]]
    /\ inbox = NoInbox

\* run_daemon up to the while-loop: self.running = True, handlers installed
RunDaemon(s) ==
    /\ run[s].pc = "init"
    /\ run' = [run EXCEPT ![s].pc = "while", ![s].running = TRUE]
    /\ last' = Did("run_daemon", "", "", s)
    /\ UNCHANGED <<db, fs, now, sch, inbox>>

\* signal_handler: SIGTERM or SIGINT arrives, wherever the process is
SignalHandler(s) ==
    /\ run[s].pc \notin {"off", "init", "stopped"}
    /\ run[s].signal = "none"
    /\ run' = [run EXCEPT ![s].running = FALSE, ![s].signal = run[s].pc]
    /\ last' = Did("signal", "", "", s)
    /\ UNCHANGED <<db, fs, now, sch, inbox>>

\* while self.running:
WhileRunning(s) ==
    /\ run[s].pc = "while"
    /\ run' = [run EXCEPT ![s].pc = IF run[s].running THEN "check" ELSE "stopped"]
    /\ last' = Did("while", "", "", s)
    /\ UNCHANGED <<db, fs, now, sch, inbox>>

\* check_and_post has returned, or the except clause has caught what it raised
CycleDone(s) ==
    /\ run[s].pc = "cycle"
    /\ sch[s].pc = "idle"
    /\ run' = [run EXCEPT ![s].pc = "for", ![s].slept = 0]
    /\ last' = Did("cycle_done", "", "", s)
    /\ UNCHANGED <<db, fs, now, sch, inbox>>

\* a faulty for-loop without "if not self.running: break"
ForRange_IgnoresSignal(s) ==
    /\ run[s].pc = "for"
    /\ IF run[s].slept < CheckInterval
       THEN /\ now < MaxTime
            /\ run' = [run EXCEPT ![s].pc = "sleep"]
       ELSE run' = [run EXCEPT ![s].pc = "while"]
    /\ last' = Did("for", "", "", s)
    /\ UNCHANGED <<db, fs, now, sch, inbox>>

\* for _ in range(self.check_interval): if not self.running: break
\* (a further sleep needs the clock below its horizon)
ForRange(s) ==
    /\ run[s].pc = "for"
    /\ IF run[s].slept < CheckInterval /\ run[s].running
       THEN /\ now < MaxTime
            /\ run' = [run EXCEPT ![s].pc = "sleep"]
       ELSE run' = [run EXCEPT ![s].pc = "while"]
    /\ last' = Did("for", "", "", s)
    /\ UNCHANGED <<db, fs, now, sch, inbox>>

\* time.sleep(1)
SleepOne(s) ==
    /\ run[s].pc = "sleep"
    /\ now' = now + 1
    /\ run' = [run EXCEPT ![s].pc = "for", ![s].slept = @ + 1]
    /\ last' = Did("sleep", "", "", s)
    /\ UNCHANGED <<db, fs, sch, inbox>>

\* a step of the scheduler process itself
DaemonStep(s) ==
    \/ RunDaemon(s)
    \/ WhileRunning(s)
    \/ CheckDue(s)
    \/ MarkPosting(s)
    \/ PostSingle(s)
    \/ PostSingleRaises(s)
    \/ RecordOutcome(s)
    \/ \E oserror \in BOOLEAN : SyncFolder(s, oserror)
    \/ CycleDone(s)
    \/ ForRange(s)
    \/ SleepOne(s)

NextDaemon ==
    \/ \E s \in Insts : RunDaemon(s)
    \/ \E s \in Insts : SignalHandler(s)
    \/ \E s \in Insts : WhileRunning(s)
    \/ \E s \in Insts : CheckDue(s)
    \/ \E s \in Insts : MarkPosting(s)
    \/ \E s \in Insts : PostSingle(s)
    \/ \E s \in Insts : PostSingleRaises(s)
    \/ \E s \in Insts : RecordOutcome(s)
    \/ \E s \in Insts, oserror \in BOOLEAN : SyncFolder(s, oserror)
    \/ \E s \in Insts : CycleDone(s)
    \/ \E s \in Insts : ForRange(s)
    \/ \E s \in Insts : SleepOne(s)

SpecDaemon == InitDaemon /\ [][NextDaemon]_vars

----------------------------------------------------------------------------
(* Two scheduler processes on the same store (the daemon and a one-shot    *)
(* run_once, `vbsocial track post-due`), each stepping through its own     *)
(* check_and_post, over a store of one job, draft or ready, with any       *)
(* schedule, all schedules being in the past                               *)

Racers == {"daemon", "oneshot"}

RaceIds == {"a"}

InitRace ==
    /\ \E st \in [RaceIds -> {DRAFT, READY}], sf \in [RaceIds -> Schedules] :
          db = [id \in RaceIds |-> StoredRow(id, st[id], sf[id])]
    /\ fs = {db[id].folder_path : id \in RaceIds}
    /\ now = MaxTime
    /\ sch = [s \in Racers |-> Idle]
    /\ last = [op |-> "init", id |-> "", arg |-> "", ret |-> "", before |-> NULL]
    /\ run = [s \in Racers |-> Off]
    /\ inbox = NoInbox

NextRace ==
    \/ \E s \in Racers : CheckDue(s)
    \/ \E s \in Racers : MarkPosting(s)
    \/ \E s \in Racers : PostSingle(s)
    \/ \E s \in Racers : PostSingleRaises(s)
    \/ \E s \in Racers : RecordOutcome(s)
    \/ \E s \in Racers, oserror \in BOOLEAN : SyncFolder(s, oserror)

SpecRace == InitRace /\ [][NextRace]_vars

----------------------------------------------------------------------------
(* PostManager.update_status cut short: the process is killed, or a store   *)
(* statement raises, after the rename and before the method returns.       *)

\* a faulty order: db.update_status, then the rename
update_status_upto_StoreFirst(d, f, post_id, new_status, t, writes) ==
    LET old_path == d[post_id].folder_path
        new_path == <<post_id>> \o _parse_folder_name(old_path)[2] \o <<new_status>>
        mv       == Rename(f, old_path, new_path, FALSE)
    IN  [db |-> update_status(d, post_id, new_status, t),
         fs |-> IF writes >= 2 THEN mv.fs ELSE f]

\* the store and folders after the first writes of PostManager.update_status
\* (1: the rename; 2: the rename and db.update_status), for a job whose
\* folder exists and has a name that parses
update_status_upto(d, f, post_id, new_status, t, writes) ==
    LET old_path == d[post_id].folder_path
        new_path == <<post_id>> \o _parse_folder_name(old_path)[2] \o <<new_status>>
        mv       == Rename(f, old_path, new_path, FALSE)
    IN  [db |-> IF writes >= 2 THEN update_status(d, post_id, new_status, t) ELSE d,
         fs |-> mv.fs]

TransitionInterrupted(post_id, new_status, writes) ==
    /\ post_id \in DOMAIN db
    /\ db[post_id].folder_path \in fs
    /\ _parse_folder_name(db[post_id].folder_path) # None
    /\ LET r == update_status_upto(db, fs, post_id, new_status, now, writes)
       IN  /\ db' = r.db
           /\ fs' = r.fs
    /\ last' = Did("transition", post_id, new_status, "killed")
    /\ Elapse
    /\ UNCHANGED <<sch, run, inbox>>

NextCrash ==
    \/ Next
    \/ \E post_id \in Ids, new_status \in TransitionTargets, writes \in {1, 2} :
          TransitionInterrupted(post_id, new_status, writes)

SpecCrash == Init /\ [][NextCrash]_vars

----------------------------------------------------------------------------
(* tracker/manager.py: process_inbox_images, process_inbox_tex and         *)
(* process_folder over a staging folder.  A file name is a one-letter stem *)
(* and a suffix; the folder is not written to by anyone else while a run   *)
(* is in its loop.                                                          *)

MaxStem == 2
MaxStaged == 3

Suffixes == {".PNG", ".png", ".tex", ".txt"}

FileNames == [stem : 1..MaxStem, suffix : Suffixes]

IngestIds == {"a", "b", "c"}

\* str.lower() of a suffix
lower(suffix) ==
    CASE suffix = ".PNG" -> ".png"
      [] OTHER -> suffix

\* the place of a suffix among Suffixes in code-point order ("P" < "p" < "t",
\* "e" < "x")
SuffixRank(suffix) ==
    CASE suffix = ".PNG" -> 1
      [] suffix = ".png" -> 2
      [] suffix = ".tex" -> 3
      [] suffix = ".txt" -> 4

\* Path.__lt__ / __eq__ on two files of one folder: the names as strings
PathLeq(a, b) ==
    TextLeq(<<a.stem, SuffixRank(a.suffix)>>, <<b.stem, SuffixRank(b.suffix)>>)

\* sorted(folder.iterdir())
RECURSIVE sorted(_)
sorted(files) ==
    IF files = {} THEN <<>>
    ELSE LET first == CHOOSE x \in files : \A y \in files : PathLeq(x, y)
         IN  <<first>> \o sorted(files \ {first})

\* the extensions tuple of a run
extensions(source_type) ==
    IF source_type = "image" THEN {".png", ".jpg", ".jpeg", ".gif"} ELSE {".tex"}

\* a faulty test that compares the suffix as written
Recognized_CaseSensitive(file, source_type) ==
    file.suffix \in extensions(source_type)

\* file_path.suffix.lower() in extensions
Recognized(file, source_type) ==
    lower(file.suffix) \in extensions(source_type)

InitIngest ==
    /\ db = <<>>
    /\ fs = {}
    /\ now = 0
    /\ sch = [s \in Insts |-> Idle]
    /\ last = Did("init", "", "", "")
    /\ run = [s \in Insts |-> Off]
    /\ inbox = NoInbox

\* a file is put in the staging folder, between runs
Stage(file) ==
    /\ inbox.pc = "idle"
    /\ file \notin inbox.files
    /\ Cardinality(inbox.files) < MaxStaged
    /\ inbox' = [NoInbox EXCEPT !.files = inbox.files \cup {file}]
    /\ last' = Did("stage", "", "", "")
    /\ UNCHANGED <<db, fs, now, sch, run>>

\* process_folder up to its for-loop (process_inbox_images and
\* process_inbox_tex are the same loop with the source type fixed and no
\* is_dir test)
process_folder(source_type, delete_after, is_dir) ==
    /\ inbox.pc = "idle"
    /\ Elapse
    /\ inbox' = IF ~is_dir
                THEN [NoInbox EXCEPT !.files = inbox.files,
                                     !.start = inbox.files,
                                     !.source_type = source_type,
                                     !.delete_after = delete_after,
                                     !.outcome = "raised"]
                ELSE [NoInbox EXCEPT !.files = inbox.files,
                                     !.start = inbox.files,
                                     !.source_type = source_type,
                                     !.delete_after = delete_after,
                                     !.pc = "loop",
                                     !.queue = sorted(inbox.files)]
    /\ last' = Did("process_folder", "", source_type, Bool(is_dir))
    /\ UNCHANGED <<db, fs, sch, run>>

\* an iteration for a file whose suffix is not among the extensions
SkipFile ==
    /\ inbox.pc = "loop"
    /\ inbox.queue # <<>>
    /\ ~Recognized(Head(inbox.queue), inbox.source_type)
    /\ inbox' = [inbox EXCEPT !.queue = Tail(inbox.queue)]
    /\ last' = Did("skip", "", "", "")
    /\ UNCHANGED <<db, fs, now, sch, run>>

\* an iteration for a recognized file up to results.append: create_fn with
\* generate_short_uuid() = post_id makes the folder, copies the file and
\* inserts the row; the INSERT raises for an id already present and ends
\* the run
CreateFile(post_id) ==
    LET file == Head(inbox.queue)
        folder_path == _make_folder_name(post_id, now, DRAFT)
    IN  /\ inbox.pc = "loop"
        /\ inbox.queue # <<>>
        /\ Recognized(file, inbox.source_type)
        /\ fs' = fs \cup {folder_path}
        /\ db' = create_post(db, post_id, now, folder_path, inbox.source_type)
        /\ inbox' = IF post_id \in DOMAIN db
                    THEN [inbox EXCEPT !.pc = "idle", !.outcome = "raised"]
                    ELSE [inbox EXCEPT
                            !.results = Append(@, <<post_id, folder_path>>),
                            !.created = Append(@, file),
                            !.pc = IF inbox.delete_after THEN "unlink" ELSE "loop",
                            !.queue = IF inbox.delete_after THEN @ ELSE Tail(@)]
        /\ last' = Did("create", post_id, "",
                       IF post_id \in DOMAIN db THEN "integrity" ELSE "path")
        /\ UNCHANGED <<now, sch, run>>

\* if delete_after: file_path.unlink()
Unlink ==
    /\ inbox.pc = "unlink"
    /\ inbox' = [inbox EXCEPT !.files = @ \ {Head(inbox.queue)},
                              !.queue = Tail(@),
                              !.pc = "loop"]
    /\ last' = Did("unlink", "", "", "")
    /\ UNCHANGED <<db, fs, now, sch, run>>

\* return results
ReturnResults ==
    /\ inbox.pc = "loop"
    /\ inbox.queue = <<>>
    /\ inbox' = [inbox EXCEPT !.pc = "idle", !.outcome = "returned"]
    /\ last' = Did("return", "", "", "")
    /\ UNCHANGED <<db, fs, now, sch, run>>

NextIngest ==
    \/ \E file \in FileNames : Stage(file)
    \/ \E source_type \in {"image", "tex"}, delete_after, is_dir \in BOOLEAN :
          process_folder(source_type, delete_after, is_dir)
    \/ SkipFile
    \/ \E post_id \in IngestIds : CreateFile(post_id)
    \/ Unlink
    \/ ReturnResults

SpecIngest == InitIngest /\ [][NextIngest]_vars

----------------------------------------------------------------------------
(* common/http.py: with_retry, and common/auth.py: TokenManager.  The      *)
(* arguments of a call are drawn at the start (last.arg) and the call      *)
(* leaves what it returned or raised (last.ret).                           *)

MaxAttempts == 3
SecPerMin == 2
DefaultBuffer == 5

\* the classes of an exception class, itself first
mro(class) ==
    CASE class = "ConnectionError" -> {"ConnectionError", "RequestException"}
      [] OTHER -> {class}

\* isinstance(e, exceptions) of the except clause; an exception is
\* <<class, attempt that raised it>>
isinstance(e, exceptions) == mro(e[1]) \cap exceptions # {}

\* the for-loop of wrapper from the given attempt on (range(max_attempts)
\* counts from 0).  func[k] is what the k-th invocation of the wrapped
\* function does: return its k-th value or raise an exception of a class.
\* raise last_exception with None is a TypeError.
RECURSIVE wrapper_loop(_, _, _, _, _)
wrapper_loop(attempt, a, last_exception, current_delay, slept) ==
    IF attempt >= a.max_attempts
    THEN [returned |-> NULL,
          raised |-> IF last_exception = NULL THEN Some(<<"TypeError", 0>>)
                     ELSE last_exception,
          calls |-> attempt, slept |-> slept]
    ELSE LET outcome == a.func[attempt + 1]
             e == <<outcome, attempt + 1>>
         IN  IF outcome = "return"
             THEN [returned |-> Some(attempt + 1), raised |-> NULL,
                   calls |-> attempt + 1, slept |-> slept]
             ELSE IF isinstance(e, a.exceptions)
             THEN IF attempt < a.max_attempts - 1
                  THEN wrapper_loop(attempt + 1, a, Some(e),
                                    current_delay * a.backoff,
                                    Append(slept, current_delay))
                  ELSE wrapper_loop(attempt + 1, a, Some(e), current_delay, slept)
             ELSE [returned |-> NULL, raised |-> Some(e),
                   calls |-> attempt + 1, slept |-> slept]

\* a faulty wrapper whose loop is range(max_attempts - 1)
with_retry_OneLess(a) ==
    wrapper_loop(0, [a EXCEPT !.max_attempts = @ - 1], NULL, a.delay, <<>>)

\* a call of a function decorated with with_retry(max_attempts, delay,
\* backoff, exceptions)
with_retry(a) == wrapper_loop(0, a, NULL, a.delay, <<>>)

\* datetime.fromtimestamp(seconds): minute and second
fromtimestamp(seconds) == <<seconds \div SecPerMin, seconds % SecPerMin>>

\* datetime.now() at the clock's minute
datetime_now(t) == <<t, 0>>

\* dt - timedelta(minutes=m)
minus_minutes(dt, m) == <<dt[1] - m, dt[2]>>

\* a faulty is_expired that also counts the instant expiry - buffer itself
is_expired_AtTheInstant(token, buffer_minutes, t) ==
    IF "expires_at" \notin DOMAIN token
    THEN FALSE
    ELSE LET expiry == fromtimestamp(token["expires_at"])
         IN  TextLeq(minus_minutes(expiry, buffer_minutes), datetime_now(t))

\* TokenManager.is_expired at clock t; a token is a dict (a function of its
\* keys)
is_expired(token, buffer_minutes, t) ==
    IF "expires_at" \notin DOMAIN token
    THEN FALSE
    ELSE LET expiry == fromtimestamp(token["expires_at"])
         IN  ~TextLeq(datetime_now(t), minus_minutes(expiry, buffer_minutes))

\* bool(token) of what load() returned: None and the empty dict are false
truthy(loaded) == loaded # NULL /\ DOMAIN loaded[1] # {}

\* TokenManager.get_valid_token, load() having returned loaded (None, or
\* Some(dict))
get_valid_token(loaded, t) ==
    IF truthy(loaded) /\ ~is_expired(loaded[1], DefaultBuffer, t)
    THEN loaded
    ELSE NULL

Outcomes == {"return", "ConnectionError", "ValueError"}

RetryArgs ==
    [max_attempts : 0..MaxAttempts, delay : {1}, backoff : {2},
     exceptions : {{"RequestException"}, {"ValueError"}},
     func : [1..MaxAttempts -> Outcomes]]

Timestamps == 0..((MaxTime + DefaultBuffer + 1) * SecPerMin)

Tokens ==
    {<<>>, [access_token |-> "abc123"]}
        \cup {[access_token |-> "abc123", expires_at |-> x] : x \in Timestamps}

Buffers == {0, 1, DefaultBuffer}

InitCommon ==
    /\ db = <<>>
    /\ fs = {}
    /\ now \in 0..MaxTime
    /\ sch = [s \in Insts |-> Idle]
    /\ \/ \E a \in RetryArgs :
             last = [op |-> "args", id |-> "with_retry", arg |-> a,
                     ret |-> NULL, before |-> NULL]
       \/ \E token \in Tokens, buffer_minutes \in Buffers :
             last = [op |-> "args", id |-> "is_expired",
                     arg |-> [token |-> token, buffer_minutes |-> buffer_minutes],
                     ret |-> NULL, before |-> NULL]
       \/ \E loaded \in {NULL} \cup {Some(token) : token \in Tokens} :
             last = [op |-> "args", id |-> "get_valid_token",
                     arg |-> [loaded |-> loaded],
                     ret |-> NULL, before |-> NULL]
    /\ run = [s \in Insts |-> Off]
    /\ inbox = NoInbox

WithRetry ==
    /\ last.op = "args"
    /\ last.id = "with_retry"
    /\ last' = [last EXCEPT !.op = "call", !.ret = with_retry(last.arg)]
    /\ UNCHANGED <<db, fs, now, sch, run, inbox>>

IsExpired ==
    /\ last.op = "args"
    /\ last.id = "is_expired"
    /\ last' = [last EXCEPT !.op = "call",
                  !.ret = is_expired(last.arg.token, last.arg.buffer_minutes, now)]
    /\ UNCHANGED <<db, fs, now, sch, run, inbox>>

GetValidToken ==
    /\ last.op = "args"
    /\ last.id = "get_valid_token"
    /\ last' = [last EXCEPT !.op = "call",
                  !.ret = get_valid_token(last.arg.loaded, now)]
    /\ UNCHANGED <<db, fs, now, sch, run, inbox>>

NextCommon ==
    \/ WithRetry
    \/ IsExpired
    \/ GetValidToken

SpecCommon == InitCommon /\ [][NextCommon]_vars

----------------------------------------------------------------------------
(* Vocabulary of the properties                                            *)

\* the destinations of an attempt that returned an external identifier, and
\* those that raised
Returned(att) ==
    {p \in att.config.captions : att.answer[p] \notin {"raise", "none"}}

Raised(att) ==
    {p \in att.config.captions : att.answer[p] = "raise"}

\* the stored post_ids of a row as a set of <<destination, identifier>>
PostIdsOf(r) ==
    IF r.post_ids = NULL THEN {}
    ELSE {json_loads(r.post_ids[1])[i] : i \in 1..(Len(r.post_ids[1]) \div 2)}

\* the step is scheduler s recording the outcome of the job in hand
Records(s) == sch[s].pc = "outcome" /\ sch'[s].pc # "outcome"

\* the step is scheduler s renaming the folder of the job in hand
Syncs(s) == sch[s].pc = "sync" /\ sch'[s].pc # "sync"

InHand(s) == Head(sch[s].queue).id

----------------------------------------------------------------------------
\* C1: a due job whose attempt has a destination that returned an
\* identifier and a destination that raised is recorded as posted, with
\* post_ids holding exactly the returned identifiers and nothing for the
\* destinations that raised; the folder rename that ends its processing
\* leaves both as they are.
C1_PartialSuccessIsPosted ==
    [][\A s \in Insts :
          /\ (Records(s) /\ Returned(sch[s].att) # {} /\ Raised(sch[s].att) # {})
                => /\ InHand(s) \in DOMAIN db'
                   /\ db'[InHand(s)].status = POSTED
                   /\ PostIdsOf(db'[InHand(s)]) =
                         {<<p, sch[s].att.answer[p]>> : p \in Returned(sch[s].att)}
                   /\ \A p \in Raised(sch[s].att) :
                         \A e \in PostIdsOf(db'[InHand(s)]) : e[1] # p
          /\ (Syncs(s) /\ Returned(sch[s].att) # {} /\ Raised(sch[s].att) # {}
                /\ db[InHand(s)].status = POSTED)
                => /\ db'[InHand(s)].status = POSTED
                   /\ db'[InHand(s)].post_ids = db[InHand(s)].post_ids
    ]_vars

C1_Witness ==
    \E s \in Insts :
        /\ sch[s].pc = "sync"
        /\ last.op = "mark_posted"
        /\ Returned(sch[s].att) = {"facebook"}
        /\ Raised(sch[s].att) = {"instagram"}
        /\ db[InHand(s)].status = POSTED
        /\ PostIdsOf(db[InHand(s)]) = {<<"facebook", "fb-1">>}

\* C2: the original claim: the daemon records a job as posted only if a
\* destination returned an identifier in the attempt; with no identifier
\* returned it records the job as failed.
C2_NoIdentifierIsFailed ==
    [][\A s \in Insts :
          Records(s) =>
              IF Returned(sch[s].att) = {}
              THEN db'[InHand(s)].status = FAILED
              ELSE db'[InHand(s)].status = POSTED
    ]_vars

C2_Witness ==
    \E s \in Insts :
        /\ sch[s].pc = "sync"
        /\ last.op = "mark_posted"
        /\ sch[s].att.config.ok
        /\ Returned(sch[s].att) = {}
        /\ db[InHand(s)].status = POSTED
        /\ PostIdsOf(db[InHand(s)]) = {}

----------------------------------------------------------------------------
----------------------------------------------------------------------------
\* C4: schedule(id, when) on a job that is not ready, or on an unknown id,
\* returns false and changes no field of any job (nor any folder); on a
\* ready job it returns true, sets scheduled_for to when, leaves the status
\* ready and leaves the other jobs as they are.
C4_ScheduleNeedsReady ==
    [][last'.op = "schedule" =>
          LET id == last'.id
          IN  IF id \in DOMAIN db /\ db[id].status = READY
              THEN /\ last'.ret = "true"
                   /\ db'[id].scheduled_for # NULL
                   /\ fromisoformat(db'[id].scheduled_for[1]) = last'.arg
                   /\ db'[id].status = READY
                   /\ DOMAIN db' = DOMAIN db
                   /\ \A j \in DOMAIN db \ {id} : db'[j] = db[j]
                   /\ fs' = fs
              ELSE /\ last'.ret = "false"
                   /\ db' = db
                   /\ fs' = fs
    ]_vars

C4_Witness ==
    /\ last.op = "schedule"
    /\ last.ret = "false"
    /\ last.id \in DOMAIN db
    /\ db[last.id].status = FAILED
    /\ last.before = Some(db[last.id])
    /\ fromisoformat(db[last.id].scheduled_for[1]) # last.arg

----------------------------------------------------------------------------
\* C5: retry(id) returns true exactly when the job's status is failed, and
\* then the job is ready with last_error null; for any other status and for
\* an unknown id it returns false and changes nothing, so a posted job
\* stays posted.
C5_RetryOnlyFailed ==
    [][last'.op = "retry" =>
          LET id == last'.id
          IN  IF id \in DOMAIN db /\ db[id].status = FAILED
              THEN /\ last'.ret = "true"
                   /\ db'[id].status = READY
                   /\ db'[id].last_error = NULL
              ELSE /\ last'.ret = "false"
                   /\ db' = db
                   /\ fs' = fs
    ]_vars

C5_Witness ==
    /\ last.op = "retry"
    /\ last.ret = "false"
    /\ last.id \in DOMAIN db
    /\ db[last.id].status = POSTED
    /\ db[last.id].posted_at # NULL
    /\ last.before = Some(db[last.id])

----------------------------------------------------------------------------
\* C7: after mark_posted(id, post_ids) on an existing job, whatever the
\* row held before, the job is posted, posted_at is set, last_error is
\* null and the stored post_ids decode to the map that was passed.
C7_MarkPostedRow ==
    [][(last'.op = "mark_posted" /\ last'.id \in DOMAIN db) =>
          LET r == db'[last'.id]
          IN  /\ r.status = POSTED
              /\ r.posted_at # NULL
              /\ r.last_error = NULL
              /\ r.post_ids # NULL
              /\ json_loads(r.post_ids[1]) = last'.arg
    ]_vars

C7_Witness ==
    /\ last.op = "mark_posted"
    /\ last.before # NULL
    /\ last.before[1].last_error # NULL
    /\ last.before[1].posted_at = NULL
    /\ last.arg = <<<<"facebook", "fb-1">>, <<"instagram", "ig-1">>>>
    /\ db[last.id].status = POSTED
    /\ db[last.id].last_error = NULL
    /\ db[last.id].posted_at # NULL

----------------------------------------------------------------------------
\* the step is a successful PostManager.update_status (the operator's
\* transition or the scheduler's after mark_posted)
Transitioned == last'.op \in {"transition", "sync"} /\ last'.ret = "path"

\* C8: after a successful transition(id, new_status) the row has status
\* new_status, its folder_path names an existing folder, and the name
\* decodes to (id, date, new_status) with the date of the old name, which
\* for a job the manager created is its creation date.
C8_TransitionRenames ==
    [][Transitioned =>
          LET id  == last'.id
              old == _parse_folder_name(db[id].folder_path)
              new == _parse_folder_name(db'[id].folder_path)
          IN  /\ db'[id].status = last'.arg
              /\ db'[id].folder_path \in fs'
              /\ new = <<id, old[2], <<last'.arg>>>>
              /\ db[id].source_type = "image" =>
                    /\ old[1] = id
                    /\ new[2] = strftime(fromisoformat(db[id].created_at))
    ]_vars

C8_Witness ==
    /\ last.op = "transition"
    /\ last.ret = "path"
    /\ last.arg = READY
    /\ db[last.id].status = READY
    /\ db[last.id].folder_path \in fs
    /\ db[last.id].folder_path = <<last.id>> \o strftime(0) \o <<READY>>
    /\ last.before[1].folder_path = <<last.id>> \o strftime(0) \o <<DRAFT>>
    /\ strftime(now - 1) # strftime(0)

----------------------------------------------------------------------------
\* C9: transition(id, new_status) returns nothing and leaves the store and
\* the folders as they are when the job is not found, when the folder its
\* row names does not exist, or when that folder's name does not parse.
C9_TransitionFails ==
    [][(/\ last'.op = "transition"
        /\ \/ last'.id \notin DOMAIN db
           \/ db[last'.id].folder_path \notin fs
           \/ _parse_folder_name(db[last'.id].folder_path) = None)
          => /\ last'.ret = "none"
             /\ db' = db
             /\ fs' = fs
    ]_vars

C9_Witness ==
    /\ last.op = "transition"
    /\ last.ret = "none"
    /\ last.id \in DOMAIN db
    /\ db[last.id].folder_path \in fs
    /\ _parse_folder_name(db[last.id].folder_path) = None
    /\ last.before = Some(db[last.id])

----------------------------------------------------------------------------
\* no scheduler is inside a cycle
Quiescent == \A s \in Insts : sch[s].pc = "idle"

\* C10: the original claim, for the jobs the manager created and whose
\* folder is still there: whenever no operation is under way, the status
\* in the name of the job's folder is the status of its row.
C10_FolderNameIsStatus ==
    Quiescent =>
        \A id \in DOMAIN db :
            (db[id].source_type = "image" /\ db[id].folder_path \in fs)
                => _parse_folder_name(db[id].folder_path)[3] = <<db[id].status>>

C10_Witness ==
    /\ Quiescent
    /\ last.op = "mark_failed"
    /\ db[last.id].status = FAILED
    /\ db[last.id].folder_path \in fs
    /\ _parse_folder_name(db[last.id].folder_path)[3] = <<READY>>

----------------------------------------------------------------------------
\* C6: due(at) returns exactly the jobs that are ready with a non-null
\* scheduled_for not later than at, each once, in ascending order of
\* scheduled_for.
C6_DueQuery ==
    last.op \in {"scheduled", "due"} =>
        LET q    == last.ret
            at   == last.arg
            when(id) == fromisoformat(db[id].scheduled_for[1])
        IN  /\ {q[i] : i \in DOMAIN q} =
                  {id \in DOMAIN db : /\ db[id].status = READY
                                      /\ db[id].scheduled_for # NULL
                                      /\ when(id) <= at}
            /\ \A i, j \in DOMAIN q : i < j => q[i] # q[j] /\ when(q[i]) <= when(q[j])

C6_Witness ==
    /\ last.op = "scheduled"
    /\ Len(last.ret) = 2
    /\ fromisoformat(db[last.ret[1]].scheduled_for[1]) <
          fromisoformat(db[last.ret[2]].scheduled_for[1])
    /\ last.ret[2] = "a"
    /\ \E id \in DOMAIN db :
          /\ db[id].status = READY
          /\ db[id].scheduled_for # NULL
          /\ fromisoformat(db[id].scheduled_for[1]) > last.arg

----------------------------------------------------------------------------
\* C11: the original claim: once the status of a job is posted, no step
\* changes it.
C11_PostedIsTerminal ==
    [][\A id \in DOMAIN db :
          db[id].status = POSTED => db'[id].status = POSTED
    ]_vars

C11_Witness ==
    /\ last.op = "transition"
    /\ last.ret = "path"
    /\ last.before # NULL
    /\ last.before[1].status = POSTED
    /\ last.before[1].posted_at # NULL
    /\ db[last.id].status = READY

----------------------------------------------------------------------------
\* C12: the original claim: posted_at is non-null in every state where the
\* status is posted, and once it is non-null no step changes it.
C12_PostedAtOnce ==
    [][\A id \in DOMAIN db' :
          /\ db'[id].status = POSTED => db'[id].posted_at # NULL
          /\ (id \in DOMAIN db /\ db[id].posted_at # NULL)
                => db'[id].posted_at = db[id].posted_at
    ]_vars

C12_Witness ==
    /\ last.op = "transition"
    /\ last.ret = "path"
    /\ last.arg = POSTED
    /\ db[last.id].status = POSTED
    /\ db[last.id].posted_at = NULL

----------------------------------------------------------------------------
\* C13: the original claim: a job whose status is ready or posted has
\* last_error null.
C13_NoErrorWhenReadyOrPosted ==
    \A id \in DOMAIN db :
        db[id].status \in {READY, POSTED} => db[id].last_error = NULL

C13_Witness ==
    /\ last.op = "transition"
    /\ last.ret = "path"
    /\ last.before[1].status = FAILED
    /\ db[last.id].status = READY
    /\ db[last.id].last_error # NULL

----------------------------------------------------------------------------
\* the destinations that raised in an attempt, in the order of the calls:
\* the messages "; ".join(errors) concatenates
RaisedInOrder(att) ==
    LET raised(p) == p \in Raised(att)
    IN  SelectSeq(platforms, raised)

LoadFailures == { <<"Folder not found">>, <<"Failed to load post config">> }

\* C14: a job whose status is failed has a non-null, non-empty last_error;
\* when the scheduler records a failure, last_error is the messages of all
\* the destinations that raised in the attempt, or the message of the
\* folder or config failure.
C14_FailedHasError ==
    [][/\ \A id \in DOMAIN db' :
             db'[id].status = FAILED
                => db'[id].last_error # NULL /\ db'[id].last_error[1] # <<>>
       /\ \A s \in Insts :
             (Records(s) /\ db'[InHand(s)].status = FAILED)
                => IF sch[s].att.config.ok
                   THEN /\ Raised(sch[s].att) # {}
                        /\ db'[InHand(s)].last_error = Some(RaisedInOrder(sch[s].att))
                   ELSE db'[InHand(s)].last_error[1] \in LoadFailures
    ]_vars

C14_Witness ==
    /\ last.op = "mark_failed"
    /\ db[last.id].status = FAILED
    /\ db[last.id].last_error = Some(<<"facebook", "instagram">>)

----------------------------------------------------------------------------
\* C16: in an attempt whose config loaded, every destination with a caption
\* is called exactly once, also after a destination that raised, and a
\* destination with no caption is not called and gives neither an
\* identifier nor an error.
C16_EveryCaptionOnce ==
    \A s \in Insts :
        (sch[s].pc \in {"outcome", "sync"} /\ sch[s].att.config.ok) =>
            LET calls    == sch[s].res.calls
                captions == sch[s].att.config.captions
            IN  /\ \A p \in captions :
                      Cardinality({i \in DOMAIN calls : calls[i] = p}) = 1
                /\ \A i \in DOMAIN platforms :
                      platforms[i] \notin captions =>
                         /\ \A k \in DOMAIN calls : calls[k] # platforms[i]
                         /\ \A k \in DOMAIN sch[s].res.platform_ids :
                               sch[s].res.platform_ids[k][1] # platforms[i]
                         /\ \A k \in DOMAIN sch[s].res.error :
                               sch[s].res.error[k] # platforms[i]

C16_Witness ==
    \E s \in Insts :
        /\ sch[s].pc = "outcome"
        /\ sch[s].att.config.ok
        /\ sch[s].att.config.captions = {"facebook", "instagram"}
        /\ sch[s].att.answer["facebook"] = "raise"
        /\ sch[s].res.calls = <<"facebook", "instagram">>
        /\ sch[s].res.platform_ids = << <<"instagram", "ig-1">> >>

----------------------------------------------------------------------------
\* C18: when the folder of the job is missing or its config does not load,
\* post_single calls no destination and returns the failure with the
\* message of the folder or of the load, and the scheduler records the job
\* as failed with that message as last_error.
C18_LoadFailureAborts ==
    [][\A s \in Insts :
          /\ (/\ last'.op = "post_single"
              /\ last'.ret = s
              /\ \/ Head(sch[s].queue).folder_path \notin fs
                 \/ ~sch'[s].att.config.ok)
                => /\ sch'[s].res.calls = <<>>
                   /\ ~sch'[s].res.success
                   /\ sch'[s].res.platform_ids = <<>>
                   /\ sch'[s].res.error \in LoadFailures
                   /\ Head(sch[s].queue).folder_path \notin fs
                         => sch'[s].res.error = <<"Folder not found">>
          /\ (Records(s) /\ ~sch[s].att.config.ok)
                => /\ db'[InHand(s)].status = FAILED
                   /\ db'[InHand(s)].last_error = Some(sch[s].res.error)
                   /\ sch[s].res.error \in LoadFailures
                   /\ sch[s].res.calls = <<>>
    ]_vars

C18_Witness ==
    /\ last.op = "mark_failed"
    /\ db[last.id].status = FAILED
    /\ db[last.id].folder_path \notin fs
    /\ db[last.id].last_error = Some(<<"Folder not found">>)

----------------------------------------------------------------------------
----------------------------------------------------------------------------
\* C15: the original claim: every job the due query returned at the start
\* of a cycle is attempted in that cycle: a cycle ends only with the last
\* job of its list in hand.
C15_EveryDueJobAttempted ==
    [][\A s \in Insts :
          (sch[s].pc # "idle" /\ sch'[s].pc = "idle")
             => Len(sch[s].queue) = 1
    ]_vars

C15_Witness ==
    \E s \in Insts, id \in DOMAIN db :
        /\ last.op = "sync"
        /\ last.ret = "raise"
        /\ sch[s].pc = "idle"
        /\ id # last.id
        /\ last.before # NULL
        /\ last.before[1].status = POSTED
        /\ db[id].status = READY
        /\ db[id].scheduled_for # NULL
        /\ fromisoformat(db[id].scheduled_for[1]) <= now
        /\ fromisoformat(db[last.id].scheduled_for[1]) <= fromisoformat(db[id].scheduled_for[1])

----------------------------------------------------------------------------
\* C17: while a cycle runs with no other process writing, the jobs still
\* to be processed are in ascending order of scheduled_for, the job in hand
\* first; the jobs after it have not been marked posting (they are still
\* ready) while it is in hand; and the destinations called for the job in
\* hand were called in the order facebook, instagram, linkedin, x.
C17_OneAtATimeInOrder ==
    \A s \in Insts :
        sch[s].pc # "idle" =>
            LET queue == sch[s].queue
                calls == sch[s].res.calls
                when(i) == fromisoformat(db[queue[i].id].scheduled_for[1])
                order == <<"facebook", "instagram", "linkedin", "x">>
                pos(p) == CHOOSE k \in DOMAIN order : order[k] = p
            IN  /\ \A i, j \in DOMAIN queue :
                      i < j => queue[i].id # queue[j].id /\ when(i) <= when(j)
                /\ \A j \in 2..Len(queue) : db[queue[j].id].status = READY
                /\ sch[s].pc \in {"post", "outcome"} => db[queue[1].id].status = POSTING
                /\ sch[s].pc = "sync" => db[queue[1].id].status = POSTED
                /\ \A i, j \in DOMAIN calls : i < j => pos(calls[i]) < pos(calls[j])

C17_Witness ==
    \E s \in Insts :
        /\ sch[s].pc = "mark"
        /\ last.op = "mark_failed"
        /\ db[last.id].status = FAILED
        /\ Head(sch[s].queue).id # last.id
        /\ db[Head(sch[s].queue).id].status = READY
        /\ fromisoformat(db[last.id].scheduled_for[1]) <
              fromisoformat(db[Head(sch[s].queue).id].scheduled_for[1])

----------------------------------------------------------------------------
\* C20: once the stop signal has arrived, the for-loop begins no further
\* sleep increment (the one under way ends).  When it arrived during the
\* sleep between two cycles, no further cycle begins, every step of the
\* process takes it one place further along "end of the sleep under way,
\* for-loop test, while-loop test, exit", and the process is never stuck
\* before the exit.  Once stopped, the loop stays stopped.  With no signal,
\* a cycle begins only when the one before has ended and, after the first,
\* when CheckInterval sleep increments have passed since; the process
\* sleeps only between cycles, one time unit per increment.
C20_StopSignal ==
    [][\A s \in Insts :
          LET left(pc) == CASE pc = "sleep"   -> 3
                            [] pc = "for"     -> 2
                            [] pc = "while"   -> 1
                            [] pc = "stopped" -> 0
          IN
          /\ (run[s].signal # "none" /\ run[s].pc # "sleep")
                => run'[s].pc # "sleep"
          /\ run[s].signal \in {"for", "sleep"}
                => /\ run'[s].cycles = run[s].cycles
                   /\ sch'[s] = sch[s]
                   /\ sch[s].pc = "idle"
                   /\ run'[s] # run[s] => left(run'[s].pc) = left(run[s].pc) - 1
                   /\ run[s].pc # "stopped" => ENABLED DaemonStep(s)
          /\ run[s].signal # "none"
                => ~run'[s].running /\ run'[s].signal = run[s].signal
          /\ run[s].pc = "stopped" => run'[s] = run[s] /\ sch'[s] = sch[s]
          /\ run'[s].cycles # run[s].cycles
                => /\ run'[s].cycles = run[s].cycles + 1
                   /\ sch[s].pc = "idle"
                   /\ run[s].cycles = 0 \/ run[s].slept = CheckInterval
          /\ run'[s].slept > run[s].slept
                => /\ run'[s].slept = run[s].slept + 1
                   /\ now' = now + 1
                   /\ sch[s].pc = "idle"
                   /\ run[s].pc = "sleep"
    ]_vars

C20_Witness ==
    \E s \in Insts :
        /\ run[s].pc = "stopped"
        /\ run[s].signal = "sleep"
        /\ run[s].cycles = 2
        /\ run[s].slept = 1

----------------------------------------------------------------------------
\* C27: the original claim: after a stop signal that arrived during a
\* cycle, the scheduler goes on to mark no further job: it never comes to
\* the mark_posting of another job.
C27_SignalEndsCycle ==
    [][\A s \in Insts :
          (run[s].signal = "cycle" /\ sch[s].pc # "mark")
             => sch'[s].pc # "mark"
    ]_vars

C27_Witness ==
    \E s \in Insts :
        /\ run[s].signal = "cycle"
        /\ ~run[s].running
        /\ last.op = "mark_posting"
        /\ last.ret = s
        /\ sch[s].pc = "post"
        /\ \E id \in DOMAIN db : id # last.id /\ db[id].status \in {POSTED, FAILED}

----------------------------------------------------------------------------
\* C28: the original claim: when the scheduler executes mark_posting for a
\* job, the job's status is ready and its scheduled_for is non-null and not
\* later than now.
C28_MarkPostingFindsReady ==
    [][last'.op = "mark_posting" =>
          /\ last'.id \in DOMAIN db
          /\ db[last'.id].status = READY
          /\ db[last'.id].scheduled_for # NULL
          /\ fromisoformat(db[last'.id].scheduled_for[1]) <= now
    ]_vars

C28_Witness ==
    /\ last.op = "mark_posting"
    /\ last.before # NULL
    /\ last.before[1].status = DRAFT
    /\ db[last.id].status = POSTING
    /\ _parse_folder_name(db[last.id].folder_path)[3] = <<DRAFT>>

----------------------------------------------------------------------------
\* C29: a retry that succeeds changes status, last_error and updated_at of
\* the job and nothing else: its other columns, the other jobs and the
\* folders are as they were; a retry that fails changes nothing.
C29_RetryFrame ==
    [][last'.op = "retry" =>
          /\ fs' = fs
          /\ DOMAIN db' = DOMAIN db
          /\ \A j \in DOMAIN db : j # last'.id => db'[j] = db[j]
          /\ last'.id \in DOMAIN db =>
                LET old == db[last'.id]
                    new == db'[last'.id]
                IN  /\ new.scheduled_for = old.scheduled_for
                    /\ new.folder_path = old.folder_path
                    /\ new.post_ids = old.post_ids
                    /\ new.posted_at = old.posted_at
                    /\ new.created_at = old.created_at
                    /\ new.source_type = old.source_type
                    /\ last'.ret = "false" => new = old
    ]_vars

C29_Witness ==
    /\ last.op = "retry"
    /\ last.ret = "true"
    /\ last.before[1].status = FAILED
    /\ db[last.id].status = READY
    /\ db[last.id].scheduled_for # NULL
    /\ db[last.id].scheduled_for = last.before[1].scheduled_for
    /\ db[last.id].folder_path = last.before[1].folder_path
    /\ db[last.id].folder_path \in fs
    /\ db[last.id].last_error = NULL
    /\ last.before[1].last_error # NULL

----------------------------------------------------------------------------
\* C22: the original claim: create_post_from_image on a source file that
\* does not exist raises and leaves the store and the folders as they are;
\* on one that exists it adds exactly one row, with an id no row had,
\* status draft, created_at = updated_at, the other columns null and
\* folder_path the folder <id>_<creation date>_draft, which it has newly
\* made; the rows and folders there were are unchanged.
C22_CreateAddsOneRow ==
    [][last'.op = "create" =>
          IF last'.ret = "raise"
          THEN db' = db /\ fs' = fs
          ELSE LET id   == last'.id
                   path == <<id>> \o strftime(now) \o <<DRAFT>>
               IN  /\ id \notin DOMAIN db
                   /\ DOMAIN db' = DOMAIN db \cup {id}
                   /\ \A j \in DOMAIN db : db'[j] = db[j]
                   /\ db'[id].status = DRAFT
                   /\ db'[id].created_at = db'[id].updated_at
                   /\ fromisoformat(db'[id].created_at) = now
                   /\ db'[id].scheduled_for = NULL
                   /\ db'[id].last_error = NULL
                   /\ db'[id].post_ids = NULL
                   /\ db'[id].posted_at = NULL
                   /\ db'[id].folder_path = path
                   /\ path \notin fs
                   /\ fs' = fs \cup {path}
    ]_vars

C22_Witness ==
    /\ last.op = "create"
    /\ last.ret = "integrity"
    /\ last.before # NULL
    /\ db[last.id] = last.before[1]
    /\ db[last.id].status = READY
    /\ \E path \in fs :
          /\ path # db[last.id].folder_path
          /\ _parse_folder_name(path) # None
          /\ _parse_folder_name(path)[1] = last.id
          /\ _parse_folder_name(path)[3] = <<DRAFT>>

----------------------------------------------------------------------------
\* C21: nothing keeps two scheduler processes from working on the same
\* job.  The mark_posting of either makes the job posting whatever status
\* it finds (posting by the other, posted, failed); the post_single of
\* either calls every destination with a caption, whatever the other has
\* delivered; and the outcome either records becomes the job's status and
\* post_ids, over what the other recorded.
C21_NoClaimGuard ==
    [][\A s \in Racers :
          /\ (last'.op = "mark_posting" /\ last'.ret = s)
                => db'[last'.id].status = POSTING
          /\ (/\ last'.op = "post_single"
              /\ last'.ret = s
              /\ Head(sch[s].queue).folder_path \in fs
              /\ sch'[s].att.config.ok)
                => LET called(p) == p \in sch'[s].att.config.captions
                   IN  sch'[s].res.calls = SelectSeq(platforms, called)
          /\ Records(s)
                => IF sch[s].res.success
                   THEN /\ db'[InHand(s)].status = POSTED
                        /\ db'[InHand(s)].post_ids # NULL
                        /\ json_loads(db'[InHand(s)].post_ids[1]) = sch[s].res.platform_ids
                   ELSE /\ db'[InHand(s)].status = FAILED
                        /\ db'[InHand(s)].last_error = Some(sch[s].res.error)
    ]_vars

C21_Witness ==
    \E s, t \in Racers :
        /\ s # t
        /\ sch[s].pc = "outcome"
        /\ sch[t].pc = "outcome"
        /\ InHand(s) = InHand(t)
        /\ db[InHand(s)].status = POSTING
        /\ "facebook" \in Returned(sch[s].att) \cap Returned(sch[t].att)
        /\ sch[s].res.calls = <<"facebook", "instagram">>
        /\ sch[t].res.calls = <<"facebook", "instagram">>

----------------------------------------------------------------------------
\* C23: a run of process_folder / process_inbox_* creates jobs for the
\* recognized files of the listing it began with, one each, in sorted
\* order of the file names, and none for another file: the files it has
\* created jobs for are an initial part of the sorted recognized files,
\* and all of them once it has returned; each has one entry in the
\* results, whose job is a draft row with its folder.  With delete_after a
\* file is gone from the staging folder only if its job has been created,
\* and no recognized file is left once the run has returned; without it
\* the staging folder is as the run found it.
C23_OneJobPerRecognizedFile ==
    LET recognized == {f \in inbox.start :
                          lower(f.suffix) \in extensions(inbox.source_type)}
        made == {inbox.created[i] : i \in DOMAIN inbox.created}
    IN  (inbox.pc # "idle" \/ inbox.outcome # "none") =>
          /\ made \subseteq recognized
          /\ \A i, j \in DOMAIN inbox.created :
                i < j => /\ inbox.created[i] # inbox.created[j]
                         /\ PathLeq(inbox.created[i], inbox.created[j])
          /\ \A f \in recognized, g \in made :
                (PathLeq(f, g) /\ f # g) => f \in made
          /\ inbox.outcome = "returned" => made = recognized
          /\ Len(inbox.results) = Len(inbox.created)
          /\ \A i, j \in DOMAIN inbox.results :
                i # j => inbox.results[i][1] # inbox.results[j][1]
          /\ \A i \in DOMAIN inbox.results :
                /\ inbox.results[i][1] \in DOMAIN db
                /\ db[inbox.results[i][1]].status = DRAFT
                /\ db[inbox.results[i][1]].folder_path = inbox.results[i][2]
                /\ inbox.results[i][2] \in fs
          /\ inbox.files \subseteq inbox.start
          /\ IF inbox.delete_after
             THEN /\ (inbox.start \ inbox.files) \subseteq made
                  /\ inbox.outcome = "returned" =>
                        inbox.files = inbox.start \ recognized
             ELSE inbox.files = inbox.start

C23_Witness ==
    /\ inbox.outcome = "returned"
    /\ inbox.delete_after
    /\ inbox.source_type = "image"
    /\ Len(inbox.results) = 2
    /\ inbox.created[1].suffix = ".PNG"
    /\ inbox.created[2].suffix = ".png"
    /\ \E f \in inbox.files : f.suffix = ".tex"
    /\ Cardinality(DOMAIN db) = 2

----------------------------------------------------------------------------
\* C24: a call of a function wrapped by with_retry(max_attempts = n,
\* exceptions = E) invokes the function at most n times.  If the first
\* attempt that does not raise an exception of E is attempt k <= n and it
\* returns, the call returns that result after exactly k invocations; if it
\* raises (an exception not of E), that exception leaves the call after
\* exactly k invocations; if all n >= 1 attempts raise exceptions of E, the
\* exception of attempt n is raised after exactly n invocations.
C24_RetryUntilFirstSuccess ==
    (last.op = "call" /\ last.id = "with_retry") =>
        LET a == last.arg
            r == last.ret
            n == a.max_attempts
            OfE(k) == /\ a.func[k] # "return"
                      /\ mro(a.func[k]) \cap a.exceptions # {}
            First(k) == \A j \in 1..(k - 1) : OfE(j)
        IN  /\ r.calls <= n
            /\ \A k \in 1..n :
                  (First(k) /\ a.func[k] = "return") =>
                      /\ r.returned = Some(k)
                      /\ r.raised = NULL
                      /\ r.calls = k
            /\ \A k \in 1..n :
                  (First(k) /\ a.func[k] # "return" /\ ~OfE(k)) =>
                      /\ r.raised = Some(<<a.func[k], k>>)
                      /\ r.returned = NULL
                      /\ r.calls = k
            /\ (n >= 1 /\ \A k \in 1..n : OfE(k)) =>
                      /\ r.raised = Some(<<a.func[n], n>>)
                      /\ r.returned = NULL
                      /\ r.calls = n

C24_Witness ==
    /\ last.op = "call"
    /\ last.id = "with_retry"
    /\ last.arg.max_attempts = MaxAttempts
    /\ last.arg.exceptions = {"RequestException"}
    /\ \A k \in 1..MaxAttempts : last.arg.func[k] = "ConnectionError"
    /\ last.ret.calls = MaxAttempts
    /\ last.ret.raised = Some(<<"ConnectionError", MaxAttempts>>)
    /\ Len(last.ret.slept) = MaxAttempts - 1

\* C25: is_expired(token, buffer) is false for a token without expires_at,
\* and for one with expires_at it is true exactly when the clock is later
\* than expires_at less the buffer (in seconds: now > expires_at -
\* buffer * 60).  get_valid_token returns nothing unless a token is stored
\* and is_expired with the default buffer is false for it, and then what it
\* returns is the stored token; it returns every such token that has a key.
C25_TokenExpiry ==
    LET Expired(token, buffer_minutes) ==
            /\ "expires_at" \in DOMAIN token
            /\ now * SecPerMin > token["expires_at"] - buffer_minutes * SecPerMin
    IN  /\ (last.op = "call" /\ last.id = "is_expired") =>
              (last.ret <=> Expired(last.arg.token, last.arg.buffer_minutes))
        /\ (last.op = "call" /\ last.id = "get_valid_token") =>
              LET loaded == last.arg.loaded
                  valid == loaded # NULL /\ ~Expired(loaded[1], DefaultBuffer)
              IN  /\ last.ret # NULL => (valid /\ last.ret = loaded)
                  /\ ~valid => last.ret = NULL
                  /\ (valid /\ DOMAIN loaded[1] # {}) => last.ret = loaded

C25_Witness ==
    /\ last.op = "call"
    /\ last.id = "is_expired"
    /\ "expires_at" \in DOMAIN last.arg.token
    /\ last.arg.buffer_minutes = DefaultBuffer
    /\ now > 0
    /\ now * SecPerMin = last.arg.token["expires_at"] - DefaultBuffer * SecPerMin
    /\ last.ret = FALSE

----------------------------------------------------------------------------
\* C26: whatever part of PostManager.update_status(id, new_status) has run
\* (all of it, or its first writes before it was cut short), the store
\* differs from what the call found only if the folder has been renamed:
\* then the folder of the new name exists and the old name is gone.  Of the
\* row only status and folder_path (and updated_at) are written, to the new
\* status and the new name, the path never before the status; no other row
\* and no other folder changes.
C26_StoreAfterRename ==
    [][last'.op \in {"transition", "sync"} =>
          LET id == last'.id
              new_status == last'.arg
          IN  IF id \notin DOMAIN db
              THEN db' = db /\ fs' = fs
              ELSE LET old == db[id]
                       new == db'[id]
                       parsed == _parse_folder_name(old.folder_path)
                       new_path == <<id>> \o parsed[2] \o <<new_status>>
                   IN  /\ DOMAIN db' = DOMAIN db
                       /\ \A i \in DOMAIN db \ {id} : db'[i] = db[i]
                       /\ new # old =>
                             /\ old.folder_path \in fs
                             /\ parsed # None
                             /\ new_path \in fs'
                             /\ new_path # old.folder_path => old.folder_path \notin fs'
                       /\ fs' # fs =>
                             /\ parsed # None
                             /\ fs' = (fs \ {old.folder_path}) \cup {new_path}
                       /\ new.status # old.status => new.status = new_status
                       /\ new.folder_path # old.folder_path =>
                             /\ new.folder_path = new_path
                             /\ new.status = new_status
                       /\ [new EXCEPT !.status = old.status,
                                      !.folder_path = old.folder_path,
                                      !.updated_at = old.updated_at] = old
    ]_vars

C26_Witness ==
    /\ last.op = "transition"
    /\ last.ret = "killed"
    /\ last.before # NULL
    /\ last.before[1].status = DRAFT
    /\ db[last.id].status = READY
    /\ db[last.id].folder_path = last.before[1].folder_path
    /\ db[last.id].folder_path \notin fs
    /\ _make_folder_name(last.id, 0, READY) \in fs

----------------------------------------------------------------------------
\* C30: posting lasts only while a scheduler has the job in hand: when no
\* scheduler is inside a cycle (each has returned from check_and_post or
\* left it by an exception), no job has status posting.
C30_PostingIsTransient ==
    (\A s \in Insts : sch[s].pc = "idle") =>
        \A id \in DOMAIN db : db[id].status # POSTING

C30_Witness ==
    /\ last.op = "post_single_raised"
    /\ \A s \in Insts : sch[s].pc = "idle"
    /\ db[last.id].status = POSTING
    /\ db[last.id].folder_path \in fs

====
